---- MODULE Spec2Model ----
(***************************************************************************)
(* Model of sdk/python/kfp/v2/dsl/type_utils.py: the two module-level      *)
(* type tables and the four lookup functions over them.                    *)
(*                                                                         *)
(* Python values are tagged records ([kind |-> "str", chars |-> ...]),     *)
(* a str is the sequence of its characters, and str.lower() is computed    *)
(* character by character.  A call's outcome is either a returned value    *)
(* or a raised exception.                                                  *)
(***************************************************************************)
EXTENDS Integers, Sequences, FiniteSets, TLC

VARIABLES
  _ARTIFACT_TYPES_MAPPING,   \* module global, type_utils.py:24
  _PARAMETER_TYPES_MAPPING,  \* module global, type_utils.py:55
  last,                      \* the call that completed last (sequential callers)
  frames,                    \* per thread: the call in progress (threaded callers)
  remembered                 \* one completed call a thread chose to keep for comparison

vars == <<_ARTIFACT_TYPES_MAPPING, _PARAMETER_TYPES_MAPPING, last, frames, remembered>>

(***************************************************************************)
(* Bounds of the model.                                                    *)
(***************************************************************************)
\* longest list of InputSpec handed to get_input_artifact_type_schema
MaxInputs == 3
\* longest list of InputSpec a thread hands to get_input_artifact_type_schema
MaxThreadInputs == 2

(***************************************************************************)
(* Characters and str.lower() (ASCII range).                               *)
(***************************************************************************)
UpperLetters ==
  <<"A","B","C","D","E","F","G","H","I","J","K","L","M",
    "N","O","P","Q","R","S","T","U","V","W","X","Y","Z">>

LowerLetters ==
  <<"a","b","c","d","e","f","g","h","i","j","k","l","m",
    "n","o","p","q","r","s","t","u","v","w","x","y","z">>

\* the lower-case letter of each upper-case letter
LowerOf ==
  [c \in {UpperLetters[i] : i \in 1..Len(UpperLetters)} |->
     LowerLetters[CHOOSE i \in 1..Len(UpperLetters) : UpperLetters[i] = c]]

\* faulty variant of lower_char: the character is left as it is
lower_char_identity(c) == c

\* str.lower() on one character: an upper-case letter becomes its lower-case
\* letter, every other character is kept.
lower_char(c) == IF c \in DOMAIN LowerOf THEN LowerOf[c] ELSE c

chars_lower(s) == [i \in 1..Len(s) |-> lower_char(s[i])]

(***************************************************************************)
(* Python values.                                                          *)
(***************************************************************************)
Str(chars)   == [kind |-> "str", chars |-> chars]
Bytes(chars) == [kind |-> "bytes", chars |-> chars]
PyInt(n)     == [kind |-> "int", n |-> n]
Bool(b)      == [kind |-> "bool", b |-> b]
None         == [kind |-> "NoneType"]
\* a structured type name, e.g. {"GCSPath": {...}}
Dict(key)    == [kind |-> "dict", key |-> key]
\* a multi-line str, kept as its lines
Text(lines)  == [kind |-> "str", lines |-> lines]

\* pipeline_spec_pb2.PrimitiveType
PrimitiveType(name) == [kind |-> "PrimitiveType", name |-> name]
PrimitiveType_INT    == PrimitiveType("INT")
PrimitiveType_DOUBLE == PrimitiveType("DOUBLE")
PrimitiveType_STRING == PrimitiveType("STRING")

Return(v)      == [kind |-> "return", value |-> v]
Raise(exc, at) == [kind |-> "raise", exc |-> exc, at |-> at]

\* isinstance(type_name, str)
isinstance_str(v) == v.kind = "str"

\* whether v.lower resolves: str and bytes (and bytearray) define lower(),
\* int, NoneType and dict do not.
hasattr_lower(v) == v.kind \in {"str", "bytes"}

\* faulty variant of lower: no normalisation
lower_identity(v) == v

\* v.lower() for a value that has it: same type, characters lowered
lower(v) == [v EXCEPT !.chars = chars_lower(v.chars)]

(***************************************************************************)
(* textwrap.dedent over a literal kept as lines: [indent, text], where     *)
(* text = "" is a line of white space only.                                *)
(***************************************************************************)
Line(indent, text) == [indent |-> indent, text |-> text]

Min(S) == CHOOSE x \in S : \A y \in S : x <= y

margin(lines) ==
  LET ind == {lines[i].indent : i \in {j \in 1..Len(lines) : lines[j].text # ""}}
  IN  IF ind = {} THEN 0 ELSE Min(ind)

dedent(lines) ==
  [i \in 1..Len(lines) |->
     IF lines[i].text = "" THEN Line(0, "")
     ELSE Line(lines[i].indent - margin(lines), lines[i].text)]

\* the triple-quoted literal of one table entry: three lines indented by
\* eight columns, then the four blanks before the closing quotes
schema_literal(title) ==
  << Line(8, title), Line(8, "type: object"), Line(8, "properties:"), Line(4, "") >>

schema_document(title) == Text(dedent(schema_literal(title)))

(***************************************************************************)
(* The two tables as the module builds them at import.                     *)
(***************************************************************************)
K_gcspath == Str(<<"g","c","s","p","a","t","h">>)
K_model   == Str(<<"m","o","d","e","l">>)
K_dataset == Str(<<"d","a","t","a","s","e","t">>)
K_metrics == Str(<<"m","e","t","r","i","c","s">>)
K_schema  == Str(<<"s","c","h","e","m","a">>)
K_integer == Str(<<"i","n","t","e","g","e","r">>)
K_int     == Str(<<"i","n","t">>)
K_double  == Str(<<"d","o","u","b","l","e">>)
K_float   == Str(<<"f","l","o","a","t">>)

ArtifactKeys  == {K_gcspath, K_model, K_dataset, K_metrics, K_schema}
ParameterKeys == {K_integer, K_int, K_double, K_float}

ARTIFACT_TYPES_MAPPING_literal ==
  [k \in ArtifactKeys |->
     CASE k = K_gcspath -> schema_document("title: kfp.Artifact")
       [] k = K_model   -> schema_document("title: kfp.Model")
       [] k = K_dataset -> schema_document("title: kfp.Dataset")
       [] k = K_metrics -> schema_document("title: kfp.Metrics")
       [] k = K_schema  -> schema_document("title: kfp.Schema")]

PARAMETER_TYPES_MAPPING_literal ==
  [k \in ParameterKeys |->
     CASE k = K_integer -> PrimitiveType_INT
       [] k = K_int     -> PrimitiveType_INT
       [] k = K_double  -> PrimitiveType_DOUBLE
       [] k = K_float   -> PrimitiveType_DOUBLE]

(***************************************************************************)
(* dict operations.  A call yields a value and leaves the dict in some     *)
(* state; for d.get and `in` that state is d itself.                       *)
(***************************************************************************)
\* key in d
contains(d, key) == key \in DOMAIN d

\* faulty variant of dict_get: a missing key is an error value instead of the default
dict_getitem(d, key, default) ==
  IF key \in DOMAIN d THEN d[key] ELSE [kind |-> "KeyError"]

\* d.get(key, default)
dict_get(d, key, default) == IF key \in DOMAIN d THEN d[key] ELSE default

\* faulty variant of after_get: d.setdefault(key, default) stores a missing key
after_setdefault(d, key, default) ==
  IF key \in DOMAIN d THEN d ELSE (key :> default) @@ d

\* the dict after d.get(key, default)
after_get(d, key, default) == d

(***************************************************************************)
(* The four functions.  Each yields the call's outcome together with the   *)
(* two tables as the call leaves them.                                     *)
(***************************************************************************)
Result(outcome, artifacts, parameters) ==
  [outcome |-> outcome, artifacts |-> artifacts, parameters |-> parameters]

\* faulty variant of is_artifact_type: the isinstance guard is missing
is_artifact_type_unguarded(type_name) ==
  IF ~hasattr_lower(type_name)
    THEN Result(Raise("AttributeError", "lower"),
                _ARTIFACT_TYPES_MAPPING, _PARAMETER_TYPES_MAPPING)
    ELSE Result(Return(Bool(contains(_ARTIFACT_TYPES_MAPPING, lower(type_name)))),
                _ARTIFACT_TYPES_MAPPING, _PARAMETER_TYPES_MAPPING)

is_artifact_type(type_name) ==
  IF ~isinstance_str(type_name)
    THEN Result(Return(Bool(FALSE)),
                _ARTIFACT_TYPES_MAPPING, _PARAMETER_TYPES_MAPPING)
    ELSE Result(Return(Bool(contains(_ARTIFACT_TYPES_MAPPING, lower(type_name)))),
                _ARTIFACT_TYPES_MAPPING, _PARAMETER_TYPES_MAPPING)

\* faulty variant of get_artifact_type_schema: guarded like its siblings
get_artifact_type_schema_guarded(type_name) ==
  IF ~isinstance_str(type_name)
    THEN Result(Return(None), _ARTIFACT_TYPES_MAPPING, _PARAMETER_TYPES_MAPPING)
    ELSE Result(Return(dict_get(_ARTIFACT_TYPES_MAPPING, lower(type_name), None)),
                after_get(_ARTIFACT_TYPES_MAPPING, lower(type_name), None),
                _PARAMETER_TYPES_MAPPING)

\* type_name.lower raises AttributeError when the attribute is missing;
\* otherwise the lowered value is looked up with dict.get
get_artifact_type_schema(type_name) ==
  IF ~hasattr_lower(type_name)
    THEN Result(Raise("AttributeError", "lower"),
                _ARTIFACT_TYPES_MAPPING, _PARAMETER_TYPES_MAPPING)
    ELSE Result(Return(dict_get(_ARTIFACT_TYPES_MAPPING, lower(type_name), None)),
                after_get(_ARTIFACT_TYPES_MAPPING, lower(type_name), None),
                _PARAMETER_TYPES_MAPPING)

get_parameter_type(type_name) ==
  IF ~isinstance_str(type_name)
    THEN Result(Return(PrimitiveType_STRING),
                _ARTIFACT_TYPES_MAPPING, _PARAMETER_TYPES_MAPPING)
    ELSE Result(Return(dict_get(_PARAMETER_TYPES_MAPPING, lower(type_name),
                                PrimitiveType_STRING)),
                _ARTIFACT_TYPES_MAPPING,
                after_get(_PARAMETER_TYPES_MAPPING, lower(type_name),
                          PrimitiveType_STRING))

\* structures.InputSpec, the two fields read here
InputSpec(name, type) == [name |-> name, type |-> type]

RECURSIVE scan_inputs_last(_, _, _)
\* faulty variant of scan_inputs: the loop does not stop at the first match
scan_inputs_last(input_name, inputs, i) ==
  LET hits == {j \in i..Len(inputs) : inputs[j].name = input_name}
  IN  IF hits = {}
        THEN Result(Return(None), _ARTIFACT_TYPES_MAPPING, _PARAMETER_TYPES_MAPPING)
        ELSE get_artifact_type_schema(
               inputs[CHOOSE j \in hits : \A h \in hits : h <= j].type)

RECURSIVE scan_inputs(_, _, _)
\* the for loop from its i-th element on
scan_inputs(input_name, inputs, i) ==
  IF i > Len(inputs)
    THEN Result(Return(None), _ARTIFACT_TYPES_MAPPING, _PARAMETER_TYPES_MAPPING)
    ELSE IF inputs[i].name = input_name
      THEN get_artifact_type_schema(inputs[i].type)
      ELSE scan_inputs(input_name, inputs, i + 1)

get_input_artifact_type_schema(input_name, inputs) ==
  scan_inputs(input_name, inputs, 1)

(***************************************************************************)
(* Arguments the callers pass.                                             *)
(***************************************************************************)
\* a letter in both of its cases, any other character alone
Cased(c) == {c} \cup {UpperLetters[i] : i \in {j \in 1..Len(LowerLetters) : LowerLetters[j] = c}}

RECURSIVE Casings(_)
\* every way of casing a lower-case word
Casings(word) ==
  IF word = <<>> THEN {<<>>}
  ELSE {<<c>> \o rest : c \in Cased(Head(word)), rest \in Casings(Tail(word))}

ArtifactSpellings  == UNION {{Str(c) : c \in Casings(k.chars)} : k \in ArtifactKeys}
ParameterSpellings == UNION {{Str(c) : c \in Casings(k.chars)} : k \in ParameterKeys}

S_Model   == Str(<<"M","o","d","e","l">>)
S_MODEL   == Str(<<"M","O","D","E","L">>)
S_Dataset == Str(<<"D","a","t","a","s","e","t">>)
S_Integer == Str(<<"I","n","t","e","g","e","r">>)
S_Int     == Str(<<"I","n","t">>)
S_boolean == Str(<<"b","o","o","l","e","a","n">>)
S_nonexistent_type == Str(<<"n","o","n","e","x","i","s","t","e","n","t","_","t","y","p","e">>)

OtherStrings ==
  { Str(<<>>), S_boolean, S_nonexistent_type,
    Str(<<"M","o","d","e","l","s">>), Str(<<"M","o","d","e","l"," ">>), Str(<<"S","t","r","i","n","g">>), Str(<<"a","r","t","i","f","a","c","t">>) }

NonStrings ==
  { None, PyInt(0), PyInt(42), Dict(Str(<<"G","C","S","P","a","t","h">>)),
    Bytes(K_model.chars), Bytes(S_Model.chars), Bytes(S_Int.chars) }

\* arguments of is_artifact_type and get_artifact_type_schema
ArtifactArgs  == ArtifactSpellings \cup OtherStrings \cup NonStrings
                   \cup {S_Integer, S_Int}
\* arguments of get_parameter_type
ParameterArgs == ParameterSpellings \cup OtherStrings \cup NonStrings
                   \cup {S_Model, S_MODEL}

N_a == Str(<<"a">>)
N_b == Str(<<"b">>)
N_c == Str(<<"c">>)
N_A == Str(<<"A">>)

InputNames == {N_a, N_b, N_c, N_A}

InputSpecs ==
  { InputSpec(N_a, S_Model), InputSpec(N_b, S_Integer),
    InputSpec(N_a, S_Dataset), InputSpec(N_a, None) }

RECURSIVE SeqsUpTo(_, _)
\* the sequences over S of length at most n
SeqsUpTo(S, n) ==
  IF n = 0 THEN {<<>>}
  ELSE LET shorter == SeqsUpTo(S, n - 1)
       IN  shorter \cup {Append(q, x) : q \in shorter, x \in S}

InputLists == SeqsUpTo(InputSpecs, MaxInputs)

(***************************************************************************)
(* A sequential caller: each action is one whole call, and the caller      *)
(* takes the result of a call before it makes the next one.                *)
(***************************************************************************)
Call(op, args, outcome) == [op |-> op, args |-> args, outcome |-> outcome]

NoCall == Call("none", <<>>, Return(None))

Threads == {"t1", "t2"}

IdleFrame ==
  [pc |-> "idle", op |-> "none", args |-> <<>>, type_name |-> None,
   key |-> None, i |-> 0, outcome |-> Return(None)]

Init ==
  /\ _ARTIFACT_TYPES_MAPPING = ARTIFACT_TYPES_MAPPING_literal
  /\ _PARAMETER_TYPES_MAPPING = PARAMETER_TYPES_MAPPING_literal
  /\ last = NoCall
  /\ frames = [t \in Threads |-> IdleFrame]
  /\ remembered = NoCall

Complete(op, args, result) ==
  /\ last = NoCall
  /\ last' = Call(op, args, result.outcome)
  /\ _ARTIFACT_TYPES_MAPPING' = result.artifacts
  /\ _PARAMETER_TYPES_MAPPING' = result.parameters
  /\ UNCHANGED <<frames, remembered>>

Call_is_artifact_type ==
  \E v \in ArtifactArgs :
    Complete("is_artifact_type", <<v>>, is_artifact_type(v))

Call_get_artifact_type_schema ==
  \E v \in ArtifactArgs :
    Complete("get_artifact_type_schema", <<v>>, get_artifact_type_schema(v))

Call_get_parameter_type ==
  \E v \in ParameterArgs :
    Complete("get_parameter_type", <<v>>, get_parameter_type(v))

Call_get_input_artifact_type_schema ==
  \E n \in InputNames, l \in InputLists :
    Complete("get_input_artifact_type_schema", <<n, l>>,
             get_input_artifact_type_schema(n, l))

\* the caller takes the result
Consume ==
  /\ last # NoCall
  /\ last' = NoCall
  /\ UNCHANGED <<_ARTIFACT_TYPES_MAPPING, _PARAMETER_TYPES_MAPPING, frames, remembered>>

Next ==
  \/ Call_is_artifact_type
  \/ Call_get_artifact_type_schema
  \/ Call_get_parameter_type
  \/ Call_get_input_artifact_type_schema
  \/ Consume

Spec == Init /\ [][Next]_vars

(***************************************************************************)
(* Concurrent callers: every thread runs calls statement by statement,     *)
(* and the statements of different threads interleave freely.              *)
(*   pc "isinstance"  the guard of lines 72 and 103                        *)
(*   pc "loop"        one iteration of the for loop, lines 122-125         *)
(*   pc "lower"       type_name.lower(), lines 74, 89 and 105              *)
(*   pc "lookup"      the table access, lines 74, 89 and 105               *)
(*   pc "done"        the call has returned or raised                      *)
(***************************************************************************)
ThreadTypeNames == {S_Model, S_Int, None}

ThreadInputSpecs == {InputSpec(N_b, S_Int), InputSpec(N_a, S_MODEL)}

ThreadInputLists == SeqsUpTo(ThreadInputSpecs, MaxThreadInputs)

Frame(pc, op, args, type_name, key, i, outcome) ==
  [pc |-> pc, op |-> op, args |-> args, type_name |-> type_name,
   key |-> key, i |-> i, outcome |-> outcome]

\* a thread enters one of the four functions
T_call(t) ==
  /\ frames[t].pc = "idle"
  /\ \/ \E op \in {"is_artifact_type", "get_parameter_type"}, v \in ThreadTypeNames :
          frames' = [frames EXCEPT ![t] =
                       Frame("isinstance", op, <<v>>, v, None, 0, Return(None))]
     \/ \E v \in ThreadTypeNames :
          frames' = [frames EXCEPT ![t] =
                       Frame("lower", "get_artifact_type_schema", <<v>>, v, None, 0,
                             Return(None))]
     \/ \E l \in ThreadInputLists :
          frames' = [frames EXCEPT ![t] =
                       Frame("loop", "get_input_artifact_type_schema", <<N_a, l>>,
                             None, None, 1, Return(None))]
  /\ UNCHANGED <<_ARTIFACT_TYPES_MAPPING, _PARAMETER_TYPES_MAPPING, last, remembered>>

\* if not isinstance(type_name, str): return False / PrimitiveType.STRING
T_isinstance(t) ==
  LET f == frames[t] IN
  /\ f.pc = "isinstance"
  /\ frames' = [frames EXCEPT ![t] =
       IF ~isinstance_str(f.type_name)
         THEN [f EXCEPT !.pc = "done",
                        !.outcome = IF f.op = "is_artifact_type"
                                      THEN Return(Bool(FALSE))
                                      ELSE Return(PrimitiveType_STRING)]
         ELSE [f EXCEPT !.pc = "lower"]]
  /\ UNCHANGED <<_ARTIFACT_TYPES_MAPPING, _PARAMETER_TYPES_MAPPING, last, remembered>>

\* for component_input in inputs: if component_input.name == input_name: ...
T_loop(t) ==
  LET f == frames[t]
      input_name == f.args[1]
      inputs == f.args[2]
  IN
  /\ f.pc = "loop"
  /\ frames' = [frames EXCEPT ![t] =
       IF f.i > Len(inputs)
         THEN [f EXCEPT !.pc = "done", !.outcome = Return(None)]
         ELSE IF inputs[f.i].name = input_name
           THEN [f EXCEPT !.pc = "lower", !.type_name = inputs[f.i].type]
           ELSE [f EXCEPT !.i = f.i + 1]]
  /\ UNCHANGED <<_ARTIFACT_TYPES_MAPPING, _PARAMETER_TYPES_MAPPING, last, remembered>>

\* type_name.lower()
T_lower(t) ==
  LET f == frames[t] IN
  /\ f.pc = "lower"
  /\ frames' = [frames EXCEPT ![t] =
       IF ~hasattr_lower(f.type_name)
         THEN [f EXCEPT !.pc = "done", !.outcome = Raise("AttributeError", "lower")]
         ELSE [f EXCEPT !.pc = "lookup", !.key = lower(f.type_name)]]
  /\ UNCHANGED <<_ARTIFACT_TYPES_MAPPING, _PARAMETER_TYPES_MAPPING, last, remembered>>

\* ... in _ARTIFACT_TYPES_MAPPING / _ARTIFACT_TYPES_MAPPING.get(...) /
\* _PARAMETER_TYPES_MAPPING.get(..., PrimitiveType.STRING)
T_lookup(t) ==
  LET f == frames[t] IN
  /\ f.pc = "lookup"
  /\ CASE f.op = "is_artifact_type" ->
            /\ frames' = [frames EXCEPT ![t] =
                 [f EXCEPT !.pc = "done",
                           !.outcome = Return(Bool(contains(_ARTIFACT_TYPES_MAPPING, f.key)))]]
            /\ UNCHANGED <<_ARTIFACT_TYPES_MAPPING, _PARAMETER_TYPES_MAPPING>>
       [] f.op = "get_parameter_type" ->
            /\ frames' = [frames EXCEPT ![t] =
                 [f EXCEPT !.pc = "done",
                           !.outcome = Return(dict_get(_PARAMETER_TYPES_MAPPING, f.key,
                                                       PrimitiveType_STRING))]]
            /\ _PARAMETER_TYPES_MAPPING' =
                 after_get(_PARAMETER_TYPES_MAPPING, f.key, PrimitiveType_STRING)
            /\ UNCHANGED _ARTIFACT_TYPES_MAPPING
       [] OTHER ->
            /\ frames' = [frames EXCEPT ![t] =
                 [f EXCEPT !.pc = "done",
                           !.outcome = Return(dict_get(_ARTIFACT_TYPES_MAPPING, f.key, None))]]
            /\ _ARTIFACT_TYPES_MAPPING' = after_get(_ARTIFACT_TYPES_MAPPING, f.key, None)
            /\ UNCHANGED _PARAMETER_TYPES_MAPPING
  /\ UNCHANGED <<last, remembered>>

\* the call is over; the caller may keep its outcome to compare later calls
\* with, if it keeps none yet
T_return(t) ==
  LET f == frames[t] IN
  /\ f.pc = "done"
  /\ frames' = [frames EXCEPT ![t] = IdleFrame]
  /\ \/ UNCHANGED remembered
     \/ /\ remembered = NoCall
        /\ remembered' = Call(f.op, f.args, f.outcome)
  /\ UNCHANGED <<_ARTIFACT_TYPES_MAPPING, _PARAMETER_TYPES_MAPPING, last>>

NextThreads ==
  \E t \in Threads :
    \/ T_call(t)
    \/ T_isinstance(t)
    \/ T_loop(t)
    \/ T_lower(t)
    \/ T_lookup(t)
    \/ T_return(t)

SpecThreads == Init /\ [][NextThreads]_vars

(***************************************************************************)
(* What the properties are stated with: case-insensitive equality and the  *)
(* expected results, read off the table literals and not off the functions.*)
(***************************************************************************)
SameLetter(c, d) ==
  \/ c = d
  \/ \E i \in 1..Len(UpperLetters) : {c, d} = {UpperLetters[i], LowerLetters[i]}

EqIgnoreCase(s, k) ==
  /\ Len(s) = Len(k)
  /\ \A i \in 1..Len(s) : SameLetter(s[i], k[i])

Spells(v, keys) == {k \in keys : EqIgnoreCase(v.chars, k.chars)}

ExpectedSchema(v) ==
  IF Spells(v, ArtifactKeys) = {} THEN None
  ELSE ARTIFACT_TYPES_MAPPING_literal[CHOOSE k \in Spells(v, ArtifactKeys) : TRUE]

ExpectedParameterType(v) ==
  IF Spells(v, {K_integer, K_int}) # {} THEN PrimitiveType_INT
  ELSE IF Spells(v, {K_double, K_float}) # {} THEN PrimitiveType_DOUBLE
  ELSE PrimitiveType_STRING

UpperCase == {UpperLetters[j] : j \in 1..Len(UpperLetters)}

IsLowerCase(v) == \A i \in 1..Len(v.chars) : v.chars[i] \notin UpperCase

Example_inputs ==
  << InputSpec(N_a, S_Model), InputSpec(N_b, S_Integer), InputSpec(N_a, S_Dataset) >>

\* the threads that have finished a call, and the call each has finished
Finished == {t \in Threads : frames[t].pc = "done"}
FinishedCall(t) == Call(frames[t].op, frames[t].args, frames[t].outcome)
SameCall(c, d) == c.op = d.op /\ c.args = d.args

(***************************************************************************)
(* Properties.                                                             *)
(***************************************************************************)

\* C1: for a str argument, is_artifact_type returns True exactly when the
\* lowered argument is a key of the artifact table, that is, when the
\* argument spells one of the five keys in some casing.
C1_IsArtifactTypeOfString ==
  (last.op = "is_artifact_type" /\ last.args[1].kind = "str") =>
    LET s == last.args[1] IN
    /\ last.outcome =
         Return(Bool(Str(chars_lower(s.chars)) \in DOMAIN ARTIFACT_TYPES_MAPPING_literal))
    /\ last.outcome = Return(Bool(Spells(s, ArtifactKeys) # {}))
    /\ s \in ArtifactSpellings => last.outcome = Return(Bool(TRUE))

C1_Witness ==
  /\ last.op = "is_artifact_type"
  /\ last.args[1] = S_MODEL
  /\ last.outcome = Return(Bool(TRUE))

\* C2: for an argument that is no str, is_artifact_type returns False and
\* get_parameter_type returns PrimitiveType.STRING; neither function raises,
\* whatever the argument.
C2_NonStringsDegrade ==
  /\ last.op = "is_artifact_type" =>
       /\ last.outcome.kind = "return"
       /\ last.args[1].kind # "str" => last.outcome = Return(Bool(FALSE))
  /\ last.op = "get_parameter_type" =>
       /\ last.outcome.kind = "return"
       /\ last.args[1].kind # "str" => last.outcome = Return(PrimitiveType_STRING)

C2_Witness ==
  /\ last.op = "is_artifact_type"
  /\ last.args[1] = None
  /\ last.outcome = Return(Bool(FALSE))

\* C3: for a str argument, get_artifact_type_schema returns the document
\* stored under the lowered argument, or None when there is none; arguments
\* that differ in casing only get the same document, and the document of
\* "model" starts with the line "title: kfp.Model".
C3_SchemaOfString ==
  (last.op = "get_artifact_type_schema" /\ last.args[1].kind = "str") =>
    LET s == last.args[1]
        key == Str(chars_lower(s.chars))
    IN
    /\ last.outcome =
         Return(IF key \in DOMAIN ARTIFACT_TYPES_MAPPING_literal
                  THEN ARTIFACT_TYPES_MAPPING_literal[key] ELSE None)
    /\ last.outcome = Return(ExpectedSchema(s))
    /\ \A s2 \in ArtifactSpellings \cup OtherStrings :
         EqIgnoreCase(s.chars, s2.chars) =>
           get_artifact_type_schema(s2).outcome = last.outcome
    /\ EqIgnoreCase(s.chars, K_model.chars) =>
         /\ last.outcome.kind = "return"
         /\ last.outcome.value.kind = "str"
         /\ last.outcome.value.lines[1] = Line(0, "title: kfp.Model")

C3_Witness ==
  /\ last.op = "get_artifact_type_schema"
  /\ last.args[1] = S_MODEL
  /\ last.outcome = Return(ARTIFACT_TYPES_MAPPING_literal[K_model])

\* C4: for a str argument, get_parameter_type returns INT for "integer" and
\* "int", DOUBLE for "double" and "float" in any casing, and STRING for every
\* other str; the result is always one of the enum values.
C4_ParameterTypeOfString ==
  (last.op = "get_parameter_type" /\ last.args[1].kind = "str") =>
    /\ last.outcome = Return(ExpectedParameterType(last.args[1]))
    /\ last.outcome.kind = "return"
    /\ last.outcome.value \in
         {PrimitiveType_INT, PrimitiveType_DOUBLE, PrimitiveType_STRING}

C4_Witness ==
  /\ last.op = "get_parameter_type"
  /\ last.args[1] = S_boolean
  /\ last.outcome = Return(PrimitiveType_STRING)

\* C5: get_input_artifact_type_schema returns None when no InputSpec has
\* the name, and otherwise what the type of the FIRST InputSpec of that name
\* maps to (when that type is a str), whatever follows it in the list.
C5_FirstMatchWins ==
  last.op = "get_input_artifact_type_schema" =>
    LET input_name == last.args[1]
        inputs == last.args[2]
        hits == {j \in 1..Len(inputs) : inputs[j].name = input_name}
    IN
    /\ hits = {} => last.outcome = Return(None)
    /\ (hits # {} /\ inputs[Min(hits)].type.kind = "str") =>
         last.outcome = Return(ExpectedSchema(inputs[Min(hits)].type))
    /\ (inputs = Example_inputs /\ input_name = N_a) =>
         last.outcome = Return(ARTIFACT_TYPES_MAPPING_literal[K_model])
    /\ (inputs = Example_inputs /\ input_name = N_c) => last.outcome = Return(None)

C5_Witness ==
  /\ last.op = "get_input_artifact_type_schema"
  /\ last.args = <<N_a, Example_inputs>>
  /\ last.outcome = Return(ARTIFACT_TYPES_MAPPING_literal[K_model])

C7_TablesNeverMutated ==
  /\ _ARTIFACT_TYPES_MAPPING = ARTIFACT_TYPES_MAPPING_literal
  /\ _PARAMETER_TYPES_MAPPING = PARAMETER_TYPES_MAPPING_literal
  /\ Cardinality(DOMAIN _ARTIFACT_TYPES_MAPPING) = 5
  /\ Cardinality(DOMAIN _PARAMETER_TYPES_MAPPING) = 4
  /\ \A k \in DOMAIN _ARTIFACT_TYPES_MAPPING \cup DOMAIN _PARAMETER_TYPES_MAPPING :
       k.kind = "str" /\ IsLowerCase(k)

C7_Witness ==
  \E t, u \in Threads :
    /\ t # u
    /\ frames[t].pc = "done" /\ frames[t].outcome.kind = "raise"
    /\ frames[u].pc = "done" /\ frames[u].op = "get_artifact_type_schema"
    /\ frames[u].outcome = Return(None)
    /\ remembered.op = "get_parameter_type"

\* C8: a call with the same function and arguments has the same outcome (the
\* same value, or the same exception) whenever it is made: a finished call
\* agrees with the remembered earlier call, and with the other thread's.
C8_SameCallSameOutcome ==
  /\ \A t \in Finished :
       SameCall(FinishedCall(t), remembered) =>
         frames[t].outcome = remembered.outcome
  /\ \A t, u \in Finished :
       SameCall(FinishedCall(t), FinishedCall(u)) =>
         frames[t].outcome = frames[u].outcome

C8_Witness ==
  \E t, u \in Threads :
    /\ t # u
    /\ frames[t].pc = "done" /\ frames[u].pc = "done"
    /\ SameCall(FinishedCall(t), remembered)
    /\ remembered.outcome.kind = "raise"
    /\ frames[u].op = "get_artifact_type_schema"
    /\ frames[u].outcome.kind = "return"

\* C9, as claimed: only get_artifact_type_schema can fail; the three other
\* functions, get_input_artifact_type_schema included, always return.
C9_Claimed_OnlySchemaLookupFails ==
  last.op \in {"is_artifact_type", "get_parameter_type",
               "get_input_artifact_type_schema"} =>
    last.outcome.kind = "return"

\* C10, as claimed: is_artifact_type(s) holds exactly when
\* get_artifact_type_schema(s) returns a document, for every str s; and
\* get_input_artifact_type_schema returns None for a matched InputSpec
\* exactly when is_artifact_type of its type is False.
C10_Claimed_ClassifierAgreesWithLookup ==
  /\ (last.op = "is_artifact_type" /\ last.args[1].kind = "str") =>
       (last.outcome = Return(Bool(TRUE)))
         = (/\ get_artifact_type_schema(last.args[1]).outcome.kind = "return"
            /\ get_artifact_type_schema(last.args[1]).outcome # Return(None))
  /\ last.op = "get_input_artifact_type_schema" =>
       LET input_name == last.args[1]
           inputs == last.args[2]
           hits == {j \in 1..Len(inputs) : inputs[j].name = input_name}
       IN  hits # {} =>
             (last.outcome = Return(None))
               = (is_artifact_type(inputs[Min(hits)].type).outcome = Return(Bool(FALSE)))

\* The statement-by-statement run of a call ends as the function taken
\* whole does (a cross-check of the two renderings of the code).
StepsAgreeWithFunctions ==
  \A t \in Finished :
    LET f == frames[t] IN
    f.outcome =
      CASE f.op = "is_artifact_type" -> is_artifact_type(f.args[1]).outcome
        [] f.op = "get_artifact_type_schema" -> get_artifact_type_schema(f.args[1]).outcome
        [] f.op = "get_parameter_type" -> get_parameter_type(f.args[1]).outcome
        [] OTHER -> get_input_artifact_type_schema(f.args[1], f.args[2]).outcome

\* The part of C10 that is about str arguments: the classifier and the schema
\* lookup agree on every str, also as the type of a matched InputSpec.
ClassifierAgreesWithLookupOnStrings ==
  /\ (last.op = "is_artifact_type" /\ last.args[1].kind = "str") =>
       (last.outcome = Return(Bool(TRUE)))
         = (/\ get_artifact_type_schema(last.args[1]).outcome.kind = "return"
            /\ get_artifact_type_schema(last.args[1]).outcome # Return(None))
  /\ last.op = "get_input_artifact_type_schema" =>
       LET input_name == last.args[1]
           inputs == last.args[2]
           hits == {j \in 1..Len(inputs) : inputs[j].name = input_name}
       IN  (hits # {} /\ inputs[Min(hits)].type.kind = "str") =>
             (last.outcome = Return(None))
               = (is_artifact_type(inputs[Min(hits)].type).outcome = Return(Bool(FALSE)))

====
